---- MODULE Spec2Model ----
(***************************************************************************)
(* Model of the playback scheduler (class AudioStreamer) of the live       *)
(* multimodal client.  Time is the audio clock (context.currentTime) in    *)
(* milliseconds; audio is counted in samples at 24000 Hz, so a buffer of   *)
(* n samples lasts n * 1000 / 24000 ms.  A buffer is the range of decoded  *)
(* sample positions it holds, [first, len]: position k is the k-th sample  *)
(* ever decoded by addPCM16.  The audio context is taken to be running     *)
(* (currentTime advances), which is the case in which resume() runs to     *)
(* its end without suspending.                                             *)
(*                                                                         *)
(* The second part models the protocol client (class MultimodalLiveClient) *)
(* with its ToolManager.  A WebSocket is a record of the window: its       *)
(* readyState, the listeners connect() has registered on it, the promise   *)
(* connect() returned for it and the envelopes handed to its send().  The  *)
(* browser runs one task at a time, so each event handler, each promise    *)
(* continuation and each call of the client is one step.                   *)
(***************************************************************************)
EXTENDS Integers, Sequences, FiniteSets, Bags, TLC

\* ---------------------------------------------------------------- constants
sampleRate == 24000
bufferSize == 7680
initialBufferTime == 100
SCHEDULE_AHEAD_TIME == 200
PollPeriod == 100
WakeMargin == 50
RebuildDelay == 200

\* ------------------------------------------------------------------- bounds
MaxTime == 600
\* number of calls of the streamer's methods (addPCM16, complete, stop, resume)
MaxCalls == 4
\* a pending timer fires at most this long after it is due
MaxLate == 200

\* sizes (in samples) of the chunks handed to addPCM16: a partial buffer of
\* 220 ms (two of them fill a buffer and leave a remainder), exactly one buffer
ChunkSizes == {5280, bufferSize}
\* advances of the audio clock between two callbacks
ClockSteps == {200}

VARIABLES
    now,                    \* context.currentTime, ms
    audioQueue,             \* this.audioQueue
    processingBuffer,       \* this.processingBuffer
    isPlaying,              \* this.isPlaying
    isStreamComplete,       \* this.isStreamComplete
    scheduledTime,          \* this.scheduledTime, ms
    checkInterval,          \* this.checkInterval: 0 (null) or the interval's id
    endOfQueueAudioSource,  \* this.endOfQueueAudioSource: 0 (null) or an index of sources
    sources,                \* every buffer source created and started, in creation order
    timers,                 \* the window's pending setTimeout / setInterval entries
    gainNode,               \* this.gainNode: the generation of the current gain node
    gainValue,              \* the value the current gain node's gain is heading to
    ncalls,                 \* number of calls of the streamer's methods so far
    eos,                    \* history: complete() was called while playing, nothing submitted since
    phase,                  \* history: "stopped" since the latest stop(), "resumed" once resume() followed it
    last,                   \* history: the operation of the last step and the state it started from
    completedAt,            \* history: the number of units scheduled when complete() last called onComplete itself
    stoppedAt,              \* history: the number of units scheduled when stop() was last called
    decoded,                \* history: the number of samples addPCM16 has decoded so far
    \* ---- MultimodalLiveClient and its ToolManager
    ws,                     \* this.ws: 0 (null) or the index in socks of the owned WebSocket
    config,                 \* this.config: "null" or "set"
    socks,                  \* every WebSocket created by connect(), in creation order
    parsing,                \* inbound frames whose blobToJSON promise is pending
    running,                \* tool executions whose execute() promise is pending
    events,                 \* the events emitted to the client's listeners, in order (log events left out)
    uncaught,               \* number of exceptions / promise rejections nobody handled
    nframes,                \* number of inbound frames delivered so far
    ninputs,                \* number of calls by the application and inbound frames so far
    settled,                \* history: the dispatcher invocations that have finished, with their outcome
    clast,                  \* history: the client operation of the last step
    \* ---- a ToolManager
    tools,                  \* this.tools: name -> the capability bound to it, 0 where the Map has no entry
    tlast,                  \* history: the registerTool call of the last step
    \* ---- AudioProcessingWorklet
    resampleRatio,          \* this.resampleRatio, the fraction << numerator, denominator >>
    buffer,                 \* this.buffer, the Int16Array
    bufferWriteIndex,       \* this.bufferWriteIndex
    posted,                 \* the messages posted on this.port, in order
    fed,                    \* history: the samples processChunk was given so far, quantized, in order
    nprocess,               \* number of process() callbacks so far
    \* ---- a function of the worklet applied to one input
    arg,                    \* the input
    result,                 \* the output, once the function has returned
    \* ---- AudioRecorder
    isRecording,            \* this.isRecording
    stream,                 \* this.stream: 0 (null) or the index in streams of the MediaStream
    onAudioData,            \* this.onAudioData: "null" or "set"
    streams,                \* every MediaStream obtained by start(): are its tracks live
    starts,                 \* every invocation of start(): where it stands
    processors,             \* every AudioWorkletNode created: samples waiting in its worklet's buffer
    inbox,                  \* messages posted by the worklets, not yet handled by the main thread
    delivered,              \* the lengths of the frames handed to onAudioData, in order
    nrec,                   \* number of inputs of the recorder so far
    since,                  \* history: the latest call of the recorder, "start" or "stop"
    rlast,                  \* history: the recorder operation of the last step
    \* ---- the application
    openListener            \* what the application's listener of the client's 'open' event does

\* the scheduler's variables
svars == << now, audioQueue, processingBuffer, isPlaying, isStreamComplete,
            scheduledTime, checkInterval, endOfQueueAudioSource, sources, timers,
            gainNode, gainValue, ncalls, eos, phase, last, completedAt, stoppedAt,
            decoded >>

\* the protocol client's variables
cvars == << ws, config, socks, parsing, running, events, uncaught, nframes,
            ninputs, settled, clast >>

\* the variables of a tool registry
tvars == << tools, tlast >>

\* the capture worklet's variables
wvars == << resampleRatio, buffer, bufferWriteIndex, posted, fed, nprocess >>

\* the variables of a function application
fvars == << arg, result >>

\* the recorder's variables
rvars == << isRecording, stream, onAudioData, streams, starts, processors, inbox,
            delivered, nrec, since, rlast >>

\* the application's part
lvars == << openListener >>

vars == << svars, cvars, tvars, wvars, fvars, rvars, lvars >>

Max(a, b) == IF a >= b THEN a ELSE b

\* AudioBuffer.duration of a buffer of len samples, ms
Duration(len) == (len * 1000) \div sampleRate

EmptyBuffer(first) == [first |-> first, len |-> 0]

\* ---------------------------------------------------------- the object, packed
\* The fields of the streamer and of its environment as one record; calls and
\* passes count the onComplete calls and the scheduling passes of the step
\* being taken.
This ==
    [ audioQueue |-> audioQueue, processingBuffer |-> processingBuffer,
      isPlaying |-> isPlaying, isStreamComplete |-> isStreamComplete,
      scheduledTime |-> scheduledTime, checkInterval |-> checkInterval,
      endOfQueueAudioSource |-> endOfQueueAudioSource, sources |-> sources,
      timers |-> timers, gainNode |-> gainNode, gainValue |-> gainValue,
      phase |-> phase, calls |-> 0, passes |-> 0 ]

\* ------------------------------------------------------------------- timers
\* The window's timer table is a bag of entries [kind, id, due].  Only
\* setInterval's handle is kept by the code (in checkInterval), so only "poll"
\* entries carry an id; the handles of setTimeout are dropped, id 0.
FreshId(ts) == CHOOSE i \in 1..(BagCardinality(ts) + 1) :
                   \A tm \in BagToSet(ts) : tm.id # i

SetTimeout(ts, kind, due) == ts (+) SetToBag({[kind |-> kind, id |-> 0, due |-> due]})

SetInterval(ts, id, due) == ts (+) SetToBag({[kind |-> "poll", id |-> id, due |-> due]})

ClearTimer(ts, id) == [tm \in {x \in BagToSet(ts) : x.id # id} |-> ts[tm]]

Fired(ts, tm) == ts (-) SetToBag({tm})

\* ---------------------------------------------------------------- onComplete
onComplete(s) == [s EXCEPT !.calls = @ + 1]

\* ------------------------------------------------------- scheduleNextBuffer
StartTimeNoClamp(sched, t) == sched

StartTimeClockOnly(sched, t) == t

StartTime(sched, t) == Max(sched, t)

\* the body of the while loop, for the buffer at the head of the queue
ScheduleOne(s, t) ==
    LET audioData == Head(s.audioQueue)
        rest      == Tail(s.audioQueue)
        terminal  == Len(rest) = 0
        idx       == Len(s.sources) + 1
        cleared   == IF terminal /\ s.endOfQueueAudioSource # 0
                     THEN [s.sources EXCEPT ![s.endOfQueueAudioSource].onended = FALSE]
                     ELSE s.sources
        startTime == StartTime(s.scheduledTime, t)
        source    == [ first |-> audioData.first, len |-> audioData.len,
                       start |-> startTime, dur |-> Duration(audioData.len),
                       at |-> t, cursor |-> s.scheduledTime,
                       node |-> s.gainNode, phase |-> s.phase,
                       terminal |-> terminal,
                       onended |-> terminal, ended |-> FALSE ]
    IN  [s EXCEPT !.audioQueue = rest,
                  !.sources = Append(cleared, source),
                  !.endOfQueueAudioSource = IF terminal THEN idx ELSE @,
                  !.scheduledTime = startTime + Duration(audioData.len)]

RECURSIVE ScheduleLoopWholeQueue(_, _)
ScheduleLoopWholeQueue(s, t) ==
    IF Len(s.audioQueue) > 0
    THEN ScheduleLoopWholeQueue(ScheduleOne(s, t), t)
    ELSE s

RECURSIVE ScheduleLoop(_, _)
ScheduleLoop(s, t) ==
    IF Len(s.audioQueue) > 0 /\ s.scheduledTime < t + SCHEDULE_AHEAD_TIME
    THEN ScheduleLoop(ScheduleOne(s, t), t)
    ELSE s

\* a variant that goes idle as soon as the queue is empty, whatever the
\* processing buffer holds
RearmIdleOnEmptyQueue(s, t) ==
    IF Len(s.audioQueue) = 0 /\ s.isStreamComplete
    THEN [s EXCEPT !.isPlaying = FALSE,
                   !.timers = IF s.checkInterval # 0
                              THEN ClearTimer(s.timers, s.checkInterval)
                              ELSE s.timers,
                   !.checkInterval = 0]
    ELSE IF Len(s.audioQueue) = 0 /\ s.processingBuffer.len = 0
         THEN IF s.checkInterval = 0
              THEN [s EXCEPT !.checkInterval = FreshId(s.timers),
                             !.timers = SetInterval(s.timers, FreshId(s.timers), t + PollPeriod)]
              ELSE s
         ELSE LET nextCheckTime == s.scheduledTime - t
              IN  [s EXCEPT !.timers =
                       SetTimeout(s.timers, "wake", t + Max(0, nextCheckTime - WakeMargin))]

\* what follows the loop: go idle, arm the poll, or arm a one-shot wake
Rearm(s, t) ==
    IF Len(s.audioQueue) = 0 /\ s.processingBuffer.len = 0
    THEN IF s.isStreamComplete
         THEN [s EXCEPT !.isPlaying = FALSE,
                        !.timers = IF s.checkInterval # 0
                                   THEN ClearTimer(s.timers, s.checkInterval)
                                   ELSE s.timers,
                        !.checkInterval = 0]
         ELSE IF s.checkInterval = 0
              THEN [s EXCEPT !.checkInterval = FreshId(s.timers),
                             !.timers = SetInterval(s.timers, FreshId(s.timers), t + PollPeriod)]
              ELSE s
    ELSE LET nextCheckTime == s.scheduledTime - t
         IN  [s EXCEPT !.timers =
                  SetTimeout(s.timers, "wake", t + Max(0, nextCheckTime - WakeMargin))]

scheduleNextBuffer(s, t) ==
    Rearm(ScheduleLoop([s EXCEPT !.passes = @ + 1], t), t)

\* ------------------------------------------------------------------ addPCM16
\* addPCM16 decodes a chunk of 2n bytes into n samples and appends them to the
\* processing buffer; n stands for the chunk here.
\* Slice: the processing buffer cut into whole buffers, the rest carried
\* a variant that cuts each whole buffer from the end of the processing
\* buffer
RECURSIVE SliceNewestFirst(_)
SliceNewestFirst(s) ==
    IF s.processingBuffer.len >= bufferSize
    THEN SliceNewestFirst([s EXCEPT
             !.audioQueue = Append(@, [first |-> s.processingBuffer.first
                                                   + s.processingBuffer.len - bufferSize,
                                       len |-> bufferSize]),
             !.processingBuffer = [first |-> @.first, len |-> @.len - bufferSize]])
    ELSE s

RECURSIVE Slice(_)
Slice(s) ==
    IF s.processingBuffer.len >= bufferSize
    THEN Slice([s EXCEPT
             !.audioQueue = Append(@, [first |-> s.processingBuffer.first,
                                       len |-> bufferSize]),
             !.processingBuffer = [first |-> @.first + bufferSize,
                                   len |-> @.len - bufferSize]])
    ELSE s

addPCM16KeepCursor(s, n, t) ==
    LET s1 == Slice([s EXCEPT !.processingBuffer.len = @ + n])
    IN  IF ~s1.isPlaying
        THEN scheduleNextBuffer([s1 EXCEPT !.isPlaying = TRUE], t)
        ELSE s1

addPCM16(s, n, t) ==
    LET s1 == Slice([s EXCEPT !.processingBuffer.len = @ + n])
    IN  IF ~s1.isPlaying
        THEN scheduleNextBuffer(
                 [s1 EXCEPT !.isPlaying = TRUE,
                            !.scheduledTime = t + initialBufferTime], t)
        ELSE s1

\* ------------------------------------------------------------------ complete
completeSilent(s, t) ==
    LET s1 == [s EXCEPT !.isStreamComplete = TRUE]
    IN  IF s1.processingBuffer.len > 0
        THEN LET s2 == [s1 EXCEPT
                     !.audioQueue = Append(@, s1.processingBuffer),
                     !.processingBuffer =
                         EmptyBuffer(s1.processingBuffer.first + s1.processingBuffer.len)]
             IN  IF s2.isPlaying THEN scheduleNextBuffer(s2, t) ELSE s2
        ELSE s1

complete(s, t) ==
    LET s1 == [s EXCEPT !.isStreamComplete = TRUE]
    IN  IF s1.processingBuffer.len > 0
        THEN LET s2 == [s1 EXCEPT
                     !.audioQueue = Append(@, s1.processingBuffer),
                     !.processingBuffer =
                         EmptyBuffer(s1.processingBuffer.first + s1.processingBuffer.len)]
             IN  IF s2.isPlaying THEN scheduleNextBuffer(s2, t) ELSE s2
        ELSE onComplete(s1)

\* ---------------------------------------------------------------------- stop
stopKeepQueue(s, t) ==
    [s EXCEPT !.isPlaying = FALSE,
              !.isStreamComplete = TRUE,
              !.processingBuffer = EmptyBuffer(@.first + @.len),
              !.scheduledTime = t,
              !.timers = SetTimeout(IF s.checkInterval # 0
                                  THEN ClearTimer(s.timers, s.checkInterval)
                                  ELSE s.timers,
                                  "rebuild", t + RebuildDelay),
              !.checkInterval = 0,
              !.gainValue = 0]

stop(s, t) ==
    [s EXCEPT !.isPlaying = FALSE,
              !.isStreamComplete = TRUE,
              !.audioQueue = << >>,
              !.processingBuffer = EmptyBuffer(@.first + @.len),
              !.scheduledTime = t,
              !.timers = SetTimeout(IF s.checkInterval # 0
                                  THEN ClearTimer(s.timers, s.checkInterval)
                                  ELSE s.timers,
                                  "rebuild", t + RebuildDelay),
              !.checkInterval = 0,
              !.gainValue = 0]

\* the delayed callback of stop(): a new gain node replaces the current one
rebuildGain(s) == [s EXCEPT !.gainNode = @ + 1, !.gainValue = 1]

\* -------------------------------------------------------------------- resume
resume(s, t) ==
    [s EXCEPT !.isStreamComplete = FALSE,
              !.scheduledTime = t + initialBufferTime,
              !.gainValue = 1]

\* ------------------------------------------------------- callbacks of timers
pollCallback(s, t) ==
    IF Len(s.audioQueue) > 0 \/ s.processingBuffer.len >= bufferSize
    THEN scheduleNextBuffer(s, t)
    ELSE s

\* source.onended of source i
onendedAnyQueue(s, i) ==
    IF s.endOfQueueAudioSource = i
    THEN onComplete([s EXCEPT !.endOfQueueAudioSource = 0])
    ELSE s

onended(s, i) ==
    IF Len(s.audioQueue) = 0 /\ s.endOfQueueAudioSource = i
    THEN onComplete([s EXCEPT !.endOfQueueAudioSource = 0])
    ELSE s

\* ====================================================== the protocol client
\* ------------------------------------------------------------------- bounds
\* number of inputs of the client: calls by the application (connect,
\* disconnect, send, sendRealtimeInput, sendToolResponse) and inbound frames
MaxInputs == 3

\* the names bound by registerDefaultTools
Registered == {"googleSearch", "weather"}
\* the names a function call of the server may carry: a registered
\* capability that resolves at once, the alias of the weather capability,
\* and a name that is not bound
ToolNames == {"googleSearch", "get_weather_on_date", "nosuch"}
\* the batches of a toolCall frame: one call, or a call followed by a second one
Batches == { <<n>> : n \in ToolNames } \cup { << "get_weather_on_date", "googleSearch" >> }
\* how execute() of the weather capability settles: it is asynchronous and
\* resolves to a result (TRUE) or fails (FALSE)
WeatherExecuteSettles == BOOLEAN
\* the tags of the frames that receive() tells apart
FrameKinds == {"toolCall", "toolCallCancellation", "setupComplete", "serverContent"}
\* the parts of a modelTurn that receive() tells apart: inline data of type
\* audio/pcm with data, the same with empty data, a text part, inline data of
\* another type
PartKinds == {"audio", "audioEmpty", "text", "image"}
\* number of parts of a modelTurn
MaxParts == 3
\* the sequences of at most n parts
PartSeqs(n) == UNION { [1..m -> PartKinds] : m \in 0..n }
\* the serverContent of a frame that has none
NoContent ==
    [ interrupted |-> FALSE, turnComplete |-> FALSE, modelTurn |-> FALSE, parts |-> << >> ]
\* every serverContent: the flags interrupted and turnComplete, with or
\* without a modelTurn of at most MaxParts parts
ServerContents ==
    { [ interrupted |-> i, turnComplete |-> t, modelTurn |-> FALSE, parts |-> << >> ] :
        i \in BOOLEAN, t \in BOOLEAN }
    \cup { [ interrupted |-> x[1], turnComplete |-> x[2], modelTurn |-> TRUE, parts |-> x[3] ] :
             x \in BOOLEAN \X BOOLEAN \X PartSeqs(MaxParts) }
\* the serverContent frames of a session next to tool calls: the end of a
\* turn with an audio part and a text part
SessionContents ==
    { [ interrupted |-> FALSE, turnComplete |-> TRUE, modelTurn |-> TRUE,
        parts |-> << "audio", "text" >> ] }
\* what an inbound frame of a session holds: its tag, the names of its
\* function calls, its serverContent
InboundBodies ==
    { [ kind |-> "toolCall", names |-> n, content |-> NoContent ] : n \in Batches }
    \cup { [ kind |-> k, names |-> << >>, content |-> NoContent ] :
             k \in {"toolCallCancellation", "setupComplete"} }
    \cup { [ kind |-> "serverContent", names |-> << >>, content |-> sc ] :
             sc \in SessionContents }
\* the application's outbound operations
OutboundOps == {"send", "sendRealtimeInput", "sendToolResponse"}

NoId == << 0, 0 >>
\* functionCalls of frame fid: call j has the id <<fid, j>>
FunctionCalls(fid, names) ==
    [ j \in 1..Len(names) |-> [ name |-> names[j], id |-> << fid, j >> ] ]

\* inbound frame fid of WebSocket k
Frame(fid, k, body) ==
    [ fid |-> fid, sock |-> k, kind |-> body.kind,
      calls |-> FunctionCalls(fid, body.names), content |-> body.content ]

\* an outbound envelope; for a toolResponse: the id it carries, its tag
\* (output / error), its payload, the call whose handling produced the payload
\* (of) and the frame whose handling sent it (frame)
Envelope(type) ==
    [ type |-> type, id |-> NoId, tag |-> "none", payload |-> "none",
      of |-> NoId, frame |-> 0 ]

\* new WebSocket(url) with the listeners and the promise of connect()
NewSocket ==
    [ state |-> "connecting", onError |-> TRUE, onClose |-> FALSE,
      promise |-> "pending", out |-> << >> ]

\* the client, what the current task has thrown ("" for nothing) and what
\* disconnect() has returned to it
Client ==
    [ ws |-> ws, config |-> config, socks |-> socks, parsing |-> parsing,
      running |-> running, events |-> events, uncaught |-> uncaught,
      settled |-> settled, threw |-> "", ret |-> FALSE ]

\* this.emit(ev, ...) on behalf of inbound frame f (0 for none); parts are
\* the positions in the frame's modelTurn of the parts the event carries
EmitParts(c, ev, f, ps) ==
    [c EXCEPT !.events = Append(@, [ev |-> ev, frame |-> f, parts |-> ps])]

Emit(c, ev, f) == EmitParts(c, ev, f, << >>)

\* an exception that leaves the task without being caught
Unhandled(c) == [c EXCEPT !.uncaught = @ + 1, !.threw = ""]

\* WebSocket.send of the owned socket: queued on an open socket, dropped
\* without an exception once the socket is closing or closed
SocketSend(c, env) ==
    IF c.socks[c.ws].state = "open"
    THEN [c EXCEPT !.socks[c.ws].out = Append(@, env)]
    ELSE c

sendDirectWhenIdle(c, env) ==
    IF c.ws = 0
    THEN [c EXCEPT !.threw = "WebSocket is not connected"]
    ELSE IF c.running # {} THEN c ELSE SocketSend(c, env)

sendDirectUnchecked(c, env) ==
    IF c.ws = 0 THEN c ELSE SocketSend(c, env)

sendDirect(c, env) ==
    IF c.ws = 0
    THEN [c EXCEPT !.threw = "WebSocket is not connected"]
    ELSE SocketSend(c, env)

send(c) == sendDirect(c, Envelope("clientContent"))

sendRealtimeInput(c) == sendDirect(c, Envelope("realtimeInput"))

sendToolResponse(c, toolResponse) == sendDirect(c, toolResponse)

\* disconnect(ws); k = 0 stands for the call without an argument
disconnectAny(c, k) ==
    IF c.ws # 0
    THEN [c EXCEPT !.socks[c.ws].state = IF @ = "open" THEN "closing" ELSE @,
                   !.ws = 0, !.ret = TRUE]
    ELSE [c EXCEPT !.ret = FALSE]

disconnect(c, k) ==
    IF (k = 0 \/ c.ws = k) /\ c.ws # 0
    THEN [c EXCEPT !.socks[c.ws].state = IF @ = "open" THEN "closing" ELSE @,
                   !.ws = 0, !.ret = TRUE]
    ELSE [c EXCEPT !.ret = FALSE]

\* the error listener of connect(): it throws inside the event dispatch
onError(c, k) == Unhandled(disconnect(c, k))

\* the close listener registered by the open handler
onClose(c, k) == Emit(disconnect(c, k), "close", 0)

\* what a listener of 'open' of the application does: a call of send(), or
\* a call of send() inside a try block of its own ("none": no listener)
OpenListeners == {"send", "trySend"}

\* this.emit('open'): the event is recorded and the application's listener
\* runs inside the call
emitOpen(c) ==
    LET e == Emit(c, "open", 0)
    IN  CASE openListener = "send" -> send(e)
          [] openListener = "trySend" -> [send(e) EXCEPT !.threw = ""]
          [] OTHER -> e

\* the open listener of connect(); an exception of a listener of 'open'
\* leaves emit() and the handler
onOpenAwaitSetup(c, k) ==
    IF c.config = "null"
    THEN [c EXCEPT !.socks[k].promise = "rejected"]
    ELSE LET emitted == emitOpen(c)
             opened == [emitted EXCEPT !.ws = k]
             setup == sendDirect(opened, Envelope("setup"))
         IN  IF emitted.threw # ""
             THEN Unhandled(emitted)
             ELSE [setup EXCEPT !.socks[k].onError = FALSE,
                                !.socks[k].onClose = TRUE]

onOpenOwnsFirst(c, k) ==
    IF c.config = "null"
    THEN [c EXCEPT !.socks[k].promise = "rejected"]
    ELSE LET emitted == emitOpen([c EXCEPT !.ws = k])
             setup == sendDirect(emitted, Envelope("setup"))
         IN  IF emitted.threw # ""
             THEN Unhandled(emitted)
             ELSE [setup EXCEPT !.socks[k].onError = FALSE,
                                !.socks[k].onClose = TRUE,
                                !.socks[k].promise = "resolved"]

onOpen(c, k) ==
    IF c.config = "null"
    THEN [c EXCEPT !.socks[k].promise = "rejected"]
    ELSE LET emitted == emitOpen(c)
             opened == [emitted EXCEPT !.ws = k]
             setup == sendDirect(opened, Envelope("setup"))
         IN  IF emitted.threw # ""
             THEN Unhandled(emitted)
             ELSE [setup EXCEPT !.socks[k].onError = FALSE,
                                !.socks[k].onClose = TRUE,
                                !.socks[k].promise = "resolved"]

\* ------------------------------------------------------------- ToolManager
\* the capability handleToolCall looks up for a name, "none" if there is none
Tool(name) ==
    IF name = "get_weather_on_date"
    THEN IF "weather" \in Registered THEN "weather" ELSE "none"
    ELSE IF name \in Registered THEN name ELSE "none"

\* the value handleToolCall of the ToolManager resolves to for a call whose
\* execute has settled with outcome [ok, payload, of]
functionResponseLatestId(call, outcome) ==
    [ type |-> "toolResponse",
      id |-> IF running = {} THEN call.id
             ELSE (CHOOSE r \in running : \A q \in running : q.frame <= r.frame).call.id,
      tag |-> IF outcome.ok THEN "output" ELSE "error",
      payload |-> outcome.payload, of |-> outcome.of, frame |-> 0 ]

functionResponse(call, outcome) ==
    [ type |-> "toolResponse", id |-> call.id,
      tag |-> IF outcome.ok THEN "output" ELSE "error",
      payload |-> outcome.payload, of |-> outcome.of, frame |-> 0 ]

\* ------------------------------------------------- handleToolCall, receive
\* history: the invocation r of the dispatcher has finished with an outcome
\* ("ok", "failed", "unknown") while the client owned c.ws; r keeps the size
\* of the batch it was taken from and the number of events emitted before it
Settle(c, r, outcome) ==
    [c EXCEPT !.running = @ \ {r},
              !.settled = @ \cup {[ frame |-> r.frame, sock |-> r.sock, call |-> r.call,
                                    batch |-> r.batch, started |-> r.started,
                                    outcome |-> outcome, ws |-> c.ws ]}]

\* the catch block of handleToolCall: an error response with the id of the
\* first call; if sending it throws, the promise of receive() is rejected
\* and nobody handles that
catchToolCall(c, r, message) ==
    LET sent == sendToolResponse([c EXCEPT !.threw = ""],
                    [ type |-> "toolResponse", id |-> r.first, tag |-> "error",
                      payload |-> message, of |-> r.call.id, frame |-> r.frame ])
    IN  IF sent.threw = "" THEN sent ELSE Unhandled(sent)

\* the try block of handleToolCall after the dispatcher's promise has
\* resolved for invocation r
dispatched(c, r, outcome) ==
    LET done == Settle(c, r, IF outcome.ok THEN "ok" ELSE "failed")
        sent == sendToolResponse(done,
                    [functionResponse(r.call, outcome) EXCEPT !.frame = r.frame])
    IN  IF sent.threw = "" THEN sent ELSE catchToolCall(sent, r, sent.threw)

\* the dispatcher is invoked for call j of toolCall frame f: an unbound name
\* throws, GoogleSearchTool.execute resolves to null within the same task,
\* the weather capability's execute stays pending
dispatch(c, f, j) ==
    LET call == f.calls[j]
        r == [ frame |-> f.fid, sock |-> f.sock, call |-> call, first |-> f.calls[1].id,
               batch |-> Len(f.calls), started |-> Len(c.events) ]
    IN  CASE Tool(call.name) = "none" ->
                catchToolCall(Settle(c, r, "unknown"), r, "Unknown tool")
          [] Tool(call.name) = "googleSearch" ->
                dispatched(c, r, [ok |-> TRUE, payload |-> "null", of |-> call.id])
          [] OTHER -> [c EXCEPT !.running = @ \cup {r}]

handleToolCallLast(c, f) == dispatch(c, f, Len(f.calls))

handleToolCall(c, f) == dispatch(c, f, 1)

\* the audio parts of a modelTurn: inline data whose type starts with audio/pcm
IsAudioPart(part) == part \in {"audio", "audioEmpty"}

\* parts.filter: the positions of the parts that are (are not) audio parts
FilterParts(parts, audio) ==
    SelectSeq([ i \in 1..Len(parts) |-> i ], LAMBDA i : IsAudioPart(parts[i]) = audio)

\* base64s.forEach from position n on: an audio event for each audio part
\* whose data is not empty
RECURSIVE EmitAudio(_, _, _, _)
EmitAudio(c, f, audioParts, n) ==
    IF n > Len(audioParts) THEN c
    ELSE EmitAudio(IF f.content.parts[audioParts[n]] = "audio"
                   THEN EmitParts(c, "audio", f.fid, << audioParts[n] >>)
                   ELSE c,
                   f, audioParts, n + 1)

\* the modelTurn of serverContent frame f
modelTurnAllParts(c, f) ==
    LET parts == f.content.parts
        heard == EmitAudio(c, f, FilterParts(parts, TRUE), 1)
    IN  IF FilterParts(parts, FALSE) = << >> THEN heard
        ELSE EmitParts(heard, "content", f.fid, [ i \in 1..Len(parts) |-> i ])

modelTurn(c, f) ==
    LET parts == f.content.parts
        audioParts == FilterParts(parts, TRUE)
        otherParts == FilterParts(parts, FALSE)
        heard == EmitAudio(c, f, audioParts, 1)
    IN  IF otherParts = << >> THEN heard
        ELSE EmitParts(heard, "content", f.fid, otherParts)

\* the serverContent branch of receive()
serverContentGoesOn(c, f) ==
    LET noted == IF f.content.interrupted THEN Emit(c, "interrupted", f.fid) ELSE c
        turned == IF f.content.turnComplete THEN Emit(noted, "turncomplete", f.fid) ELSE noted
    IN  IF f.content.modelTurn THEN modelTurn(turned, f) ELSE turned

serverContentTurnEnds(c, f) ==
    IF f.content.interrupted THEN Emit(c, "interrupted", f.fid)
    ELSE IF f.content.turnComplete THEN Emit(c, "turncomplete", f.fid)
    ELSE IF f.content.modelTurn THEN modelTurn(c, f) ELSE c

serverContent(c, f) ==
    IF f.content.interrupted THEN Emit(c, "interrupted", f.fid)
    ELSE LET turned == IF f.content.turnComplete
                       THEN Emit(c, "turncomplete", f.fid) ELSE c
         IN  IF f.content.modelTurn THEN modelTurn(turned, f) ELSE turned

\* receive(blob) once blobToJSON has resolved to frame f
receiveAborting(c, f) ==
    CASE f.kind = "toolCall" -> handleToolCall(c, f)
      [] f.kind = "toolCallCancellation" ->
            [Emit(c, "toolcallcancellation", f.fid) EXCEPT
                !.running = { r \in @ : r.sock # f.sock }]
      [] f.kind = "setupComplete" -> Emit(c, "setupcomplete", f.fid)
      [] f.kind = "serverContent" -> serverContent(c, f)
      [] OTHER -> c

receive(c, f) ==
    CASE f.kind = "toolCall" -> handleToolCall(c, f)
      [] f.kind = "toolCallCancellation" -> Emit(c, "toolcallcancellation", f.fid)
      [] f.kind = "setupComplete" -> Emit(c, "setupcomplete", f.fid)
      [] f.kind = "serverContent" -> serverContent(c, f)
      [] OTHER -> c

\* ----------------------------------------------------------- client history
\* the history of a step that is no operation of the client
ClientNoOp ==
    [ op |-> "none", sock |-> 0, frame |-> 0, kind |-> "", content |-> NoContent,
      threw |-> "", ret |-> FALSE,
      pre |-> [ ws |-> 0, config |-> "null", socks |-> << >>, parsing |-> {},
                running |-> {}, events |-> << >>, uncaught |-> 0 ] ]

\* the state an operation starts from, kept for the operations that send,
\* handle a frame or give up a transport (the application's outbound calls,
\* receive, the end of a tool execution, disconnect, the error and close
\* notifications)
ClientBefore(op) ==
    IF op \in OutboundOps \cup {"receive", "toolDone", "disconnect", "error", "close"}
    THEN [ ws |-> ws, config |-> config, socks |-> socks, parsing |-> parsing,
           running |-> running, events |-> events, uncaught |-> uncaught ]
    ELSE ClientNoOp.pre

\* the serverContent of frame fid while it is being parsed
ContentOf(fid) ==
    IF \E f \in parsing : f.fid = fid
    THEN (CHOOSE f \in parsing : f.fid = fid).content
    ELSE NoContent

ClientInit ==
    /\ ws = 0
    /\ config = "null"
    /\ socks = << >>
    /\ parsing = {}
    /\ running = {}
    /\ events = << >>
    /\ uncaught = 0
    /\ nframes = 0
    /\ ninputs = 0
    /\ settled = {}
    /\ clast = ClientNoOp

\* the application has no listener of 'open'
NoListener == openListener = "none"

\* ------------------------------------------------- ToolManager.registerTool
\* the names a registration is attempted under: the two names the
\* constructor binds and two others
RegistryNames == Registered \cup {"calculator", "clock"}

\* number of capability objects handed to registerTool
MaxCapabilities == 3

Capabilities == 1 .. MaxCapabilities

\* the empty Map
NoTools == [ n \in RegistryNames |-> 0 ]

\* a ToolManager: its Map, and whether the call threw
Manager(map) == [ tools |-> map, threw |-> FALSE ]

registerToolOverwriting(t, name, toolInstance) ==
    [ tools |-> [t.tools EXCEPT ![name] = toolInstance], threw |-> FALSE ]

registerTool(t, name, toolInstance) ==
    IF t.tools[name] # 0
    THEN [t EXCEPT !.threw = TRUE]
    ELSE [ tools |-> [t.tools EXCEPT ![name] = toolInstance], threw |-> FALSE ]

\* the constructor's two registrations: a GoogleSearchTool and a WeatherTool
registerDefaultTools(t) ==
    LET a == registerTool(t, "googleSearch", 1)
    IN  IF a.threw THEN a ELSE registerTool(a, "weather", 2)

ToolNoOp == [ op |-> "none", name |-> "", tool |-> 0, threw |-> FALSE, pre |-> NoTools ]

\* new ToolManager()
ToolInit ==
    /\ tools = registerDefaultTools(Manager(NoTools)).tools
    /\ tlast = ToolNoOp

\* ------------------------------------------------- AudioProcessingWorklet
targetSampleRate == 16000
\* length of this.buffer
BufferLength == 2048
FullScale == 32768
Int16Min == -32768
Int16Max == 32767

\* A Float32 sample x is the integer x * FullScale * QuantSteps: the model
\* tells samples apart down to 1/QuantSteps of a quantization step.
QuantSteps == 4

\* what reading a typed array outside its bounds makes of an expression
NaN == -(2^30)

Min(a, b) == IF a <= b THEN a ELSE b

RECURSIVE GCD(_, _)
GCD(a, b) == IF b = 0 THEN a ELSE GCD(b, a % b)

\* targetSampleRate / originalSampleRate as a fraction in lowest terms
Ratio(originalSampleRate) ==
    LET g == GCD(targetSampleRate, originalSampleRate)
    IN  << targetSampleRate \div g, originalSampleRate \div g >>

\* inputData[j] of a typed array of inputLength elements, j counted from 0
At(inputData, inputLength, j) ==
    IF j \in 0 .. inputLength - 1 THEN inputData[j + 1] ELSE NaN

\* a * (1 - fraction) + b * fraction for fraction = r / num, times num
Interpolate(a, b, r, num) ==
    IF a = NaN \/ b = NaN THEN NaN ELSE a * (num - r) + b * r

linearResampleReadingNext(inputData, ratio) ==
    LET num == ratio[1]
        den == ratio[2]
        inputLength == Len(inputData)
        outputLength == (inputLength * num) \div den
    IN  [ n \in 1 .. outputLength |->
            LET index == ((n - 1) * den) \div num
                r == ((n - 1) * den) % num
            IN  IF index >= inputLength
                THEN At(inputData, inputLength, inputLength - 1) * num
                ELSE Interpolate(At(inputData, inputLength, index),
                                 At(inputData, inputLength, index + 1), r, num) ]

\* linearResample(inputData) under this.resampleRatio = num / den.  The
\* position i / ratio is i * den / num: its floor is the index, the rest
\* r / num the fraction.  The samples of the result are in units of 1 / num
\* of the input's unit, which keeps the interpolated values integers.
linearResample(inputData, ratio) ==
    LET num == ratio[1]
        den == ratio[2]
        inputLength == Len(inputData)
        outputLength == (inputLength * num) \div den
    IN  [ n \in 1 .. outputLength |->
            LET index == ((n - 1) * den) \div num
                r == ((n - 1) * den) % num
            IN  IF index >= inputLength - 1
                THEN At(inputData, inputLength, inputLength - 1) * num
                ELSE Interpolate(At(inputData, inputLength, index),
                                 At(inputData, inputLength, index + 1), r, num) ]

\* Math.max(-32768, Math.min(32767, Math.floor(float * 32768))) for the
\* sample x in units of 1 / scale of the sample unit; NaN is stored as 0
quantize(x, scale) ==
    IF x = NaN THEN 0
    ELSE Max(Int16Min, Min(Int16Max, x \div (scale * QuantSteps)))

\* the worklet: its fields, and the messages posted on its port
Worklet == [ buffer |-> buffer, bufferWriteIndex |-> bufferWriteIndex,
             posted |-> posted ]

\* sendAndClearBuffer(): this.buffer.slice(0, this.bufferWriteIndex) is posted
sendAndClearBuffer(w) ==
    [w EXCEPT !.posted = Append(@, [ event |-> "chunk",
                                     data |-> SubSeq(w.buffer, 1, Min(w.bufferWriteIndex, BufferLength)) ]),
              !.bufferWriteIndex = 0]

storeSampleFlushingLate(w, int16Value) ==
    LET a == [w EXCEPT !.buffer = IF w.bufferWriteIndex < BufferLength
                                  THEN [@ EXCEPT ![w.bufferWriteIndex + 1] = int16Value]
                                  ELSE @,
                       !.bufferWriteIndex = @ + 1]
    IN  IF a.bufferWriteIndex > BufferLength THEN sendAndClearBuffer(a) ELSE a

\* one turn of processChunk's loop: the store (a store past the end of a
\* typed array does nothing), the increment, the test
storeSample(w, int16Value) ==
    LET a == [w EXCEPT !.buffer = IF w.bufferWriteIndex < BufferLength
                                  THEN [@ EXCEPT ![w.bufferWriteIndex + 1] = int16Value]
                                  ELSE @,
                       !.bufferWriteIndex = @ + 1]
    IN  IF a.bufferWriteIndex >= BufferLength THEN sendAndClearBuffer(a) ELSE a

\* the loop of processChunk over float32Array[lo .. hi], split in halves:
\* the worklet after the first half is the one the second half starts from
RECURSIVE processSamples(_, _, _, _, _)
processSamples(w, float32Array, scale, lo, hi) ==
    IF lo > hi THEN w
    ELSE IF lo = hi THEN storeSample(w, quantize(float32Array[lo], scale))
    ELSE LET mid == (lo + hi) \div 2
         IN  CHOOSE after \in { processSamples(half, float32Array, scale, mid + 1, hi) :
                                   half \in { processSamples(w, float32Array, scale, lo, mid) } } : TRUE

\* processChunk(float32Array): the loop, then the test once more
processChunk(w, float32Array, scale) ==
    LET a == processSamples(w, float32Array, scale, 1, Len(float32Array))
    IN  IF a.bufferWriteIndex >= BufferLength THEN sendAndClearBuffer(a) ELSE a

\* process(inputs): channels is inputs[0].length, channel0 is inputs[0][0]
process(w, channels, channel0, ratio) ==
    IF channels # 0
    THEN CHOOSE after \in { processChunk(w, resampledData, ratio[1]) :
                              resampledData \in { linearResample(channel0, ratio) } } : TRUE
    ELSE w

\* the worklet after its constructor, for the context's sample rate
WorkletInit(ratio) ==
    /\ resampleRatio = ratio
    /\ buffer = [ n \in 1 .. BufferLength |-> 0 ]
    /\ bufferWriteIndex = 0
    /\ posted = << >>
    /\ fed = << >>
    /\ nprocess = 0

\* no function of the worklet is being applied
NotApplied ==
    /\ arg = [ fn |-> "none" ]
    /\ result = [ done |-> FALSE ]

\* ------------------------------------------------------------ AudioRecorder
\* The recorder, packed: stream is 0 (null) or the index in streams of the
\* MediaStream held; streams says of every MediaStream obtained whether its
\* tracks are live; starts holds the position of every start() invocation;
\* processors holds, for every AudioWorkletNode created, the number of
\* samples waiting in its worklet's buffer; inbox holds the messages the
\* worklets have posted and the main thread has not handled yet.
Recorder ==
    [ isRecording |-> isRecording, stream |-> stream, onAudioData |-> onAudioData,
      streams |-> streams, starts |-> starts, processors |-> processors,
      inbox |-> inbox, delivered |-> delivered, threw |-> FALSE ]

\* the positions of start(): awaiting getSystemSampleRate, awaiting
\* getUserMedia, awaiting the worklet module (fetch, text, addModule)
StartStages == << "rate", "media", "module" >>

\* start(onAudioData), up to its first await
recorderStart(r) ==
    [r EXCEPT !.onAudioData = "set", !.starts = Append(@, "rate")]

\* the continuation of invocation i of start() after the promise it awaits
\* has settled: fulfilled (ok) or rejected
recorderStartResumed(r, i, ok) ==
    IF ~ok THEN [r EXCEPT !.starts[i] = "failed"]
    ELSE CASE r.starts[i] = "rate" -> [r EXCEPT !.starts[i] = "media"]
           [] r.starts[i] = "media" ->
                 [r EXCEPT !.starts[i] = "module",
                           !.streams = Append(@, TRUE),
                           !.stream = Len(r.streams) + 1]
           [] r.starts[i] = "module" ->
                 [r EXCEPT !.starts[i] = "done",
                           !.processors = Append(@, 0),
                           !.isRecording = TRUE]
           [] OTHER -> r

\* stop()
recorderStop(r) ==
    IF ~r.isRecording THEN r
    ELSE [r EXCEPT !.streams = IF r.stream # 0 THEN [@ EXCEPT ![r.stream] = FALSE] ELSE @,
                   !.stream = 0,
                   !.isRecording = FALSE]

\* process() of the worklet of processor p for a block that resamples to n
\* samples: a chunk of BufferLength samples is posted each time the buffer
\* is full, the rest waits
RECURSIVE Chunks(_, _)
Chunks(p, k) ==
    IF k = 0 THEN << >>
    ELSE Append(Chunks(p, k - 1), [ from |-> p, event |-> "chunk", len |-> BufferLength ])

workletProcess(r, p, n) ==
    LET total == r.processors[p] + n
    IN  [r EXCEPT !.processors[p] = total % BufferLength,
                  !.inbox = @ \o Chunks(p, total \div BufferLength)]

\* processor.port.onmessage for the message at the head of the inbox
onmessage(r) ==
    LET m == Head(r.inbox)
        r1 == [r EXCEPT !.inbox = Tail(@)]
    IN  IF m.event = "chunk" /\ r.onAudioData # "null" /\ r.isRecording
        THEN [r1 EXCEPT !.delivered = Append(@, m.len)]
        ELSE r1

RecorderNoOp ==
    [ op |-> "none", threw |-> FALSE, since |-> "none",
      pre |-> [ isRecording |-> FALSE, stream |-> 0, onAudioData |-> "null",
                streams |-> << >>, starts |-> << >>, processors |-> << >>,
                inbox |-> << >>, delivered |-> << >>, threw |-> FALSE ] ]

\* new AudioRecorder()
RecorderInit ==
    /\ isRecording = FALSE
    /\ stream = 0
    /\ onAudioData = "null"
    /\ streams = << >>
    /\ starts = << >>
    /\ processors = << >>
    /\ inbox = << >>
    /\ delivered = << >>
    /\ nrec = 0
    /\ since = "none"
    /\ rlast = RecorderNoOp

\* ------------------------------------------------------------------- actions
Before(op, unit) ==
    [ op |-> op, unit |-> unit, playing |-> isPlaying, qlen |-> Len(audioQueue),
      pblen |-> processingBuffer.len, pbfirst |-> processingBuffer.first,
      sched |-> scheduledTime,
      nsources |-> Len(sources), calls |-> 0, pass |-> FALSE,
      timers |-> timers ]

\* the history of a step that is no call of the streamer
NoOp ==
    [ op |-> "none", unit |-> 0, playing |-> FALSE, qlen |-> 0, pblen |-> 0,
      pbfirst |-> 1, sched |-> 0, nsources |-> 0, calls |-> 0, pass |-> FALSE,
      timers |-> EmptyBag ]

Commit(s, op, unit) ==
    /\ audioQueue' = s.audioQueue
    /\ processingBuffer' = s.processingBuffer
    /\ isPlaying' = s.isPlaying
    /\ isStreamComplete' = s.isStreamComplete
    /\ scheduledTime' = s.scheduledTime
    /\ checkInterval' = s.checkInterval
    /\ endOfQueueAudioSource' = s.endOfQueueAudioSource
    /\ sources' = s.sources
    /\ timers' = s.timers
    /\ gainNode' = s.gainNode
    /\ gainValue' = s.gainValue
    /\ last' = [Before(op, unit) EXCEPT !.calls = s.calls, !.pass = s.passes > 0]
    /\ UNCHANGED << cvars, tvars, wvars, fvars, rvars, lvars >>

StreamerInit ==
    /\ now = 0
    /\ audioQueue = << >>
    /\ processingBuffer = EmptyBuffer(1)
    /\ isPlaying = FALSE
    /\ isStreamComplete = FALSE
    /\ scheduledTime = 0
    /\ checkInterval = 0
    /\ endOfQueueAudioSource = 0
    /\ sources = << >>
    /\ timers = EmptyBag
    /\ gainNode = 1
    /\ gainValue = 1
    /\ ncalls = 0
    /\ eos = FALSE
    /\ phase = "none"
    /\ completedAt = 0
    /\ stoppedAt = 0
    /\ decoded = 0
    /\ last = NoOp

Init ==
    /\ StreamerInit
    /\ ClientInit
    /\ ToolInit
    /\ RecorderInit
    /\ NoListener
    /\ WorkletInit(<< 1, 1 >>)
    /\ NotApplied

AddPCM16 ==
    \E n \in ChunkSizes :
        /\ ncalls < MaxCalls
        /\ Commit(addPCM16(This, n, now), "addPCM16", 0)
        /\ ncalls' = ncalls + 1
        /\ eos' = FALSE
        /\ decoded' = decoded + n
        /\ UNCHANGED << now, phase, completedAt, stoppedAt >>

Complete ==
    /\ ncalls < MaxCalls
    /\ Commit(complete(This, now), "complete", 0)
    /\ ncalls' = ncalls + 1
    /\ eos' = isPlaying
    /\ completedAt' = IF complete(This, now).calls > 0 THEN Len(sources) ELSE completedAt
    /\ UNCHANGED << now, phase, stoppedAt, decoded >>

Stop ==
    /\ ncalls < MaxCalls
    /\ Commit(stop(This, now), "stop", 0)
    /\ ncalls' = ncalls + 1
    /\ eos' = FALSE
    /\ phase' = "stopped"
    /\ stoppedAt' = Len(sources)
    /\ UNCHANGED << now, completedAt, decoded >>

Resume ==
    /\ ncalls < MaxCalls
    /\ Commit(resume(This, now), "resume", 0)
    /\ ncalls' = ncalls + 1
    /\ eos' = FALSE
    /\ phase' = IF phase = "stopped" THEN "resumed" ELSE phase
    /\ UNCHANGED << now, completedAt, stoppedAt, decoded >>

\* a tick of the interval armed by scheduleNextBuffer; it stays armed, due one
\* period after this run, unless the callback cleared it
PollTick ==
    \E tm \in BagToSet(timers) :
        /\ tm.kind = "poll"
        /\ tm.due <= now
        /\ LET s == pollCallback(This, now)
               again == IF BagIn(tm, s.timers)
                        THEN [s EXCEPT !.timers =
                                 SetInterval(Fired(s.timers, tm), tm.id, now + PollPeriod)]
                        ELSE s
           IN  Commit(again, "poll", 0)
        /\ UNCHANGED << now, ncalls, eos, phase, completedAt, stoppedAt, decoded >>

\* a one-shot timer armed by scheduleNextBuffer fires
WakeFire ==
    \E tm \in BagToSet(timers) :
        /\ tm.kind = "wake"
        /\ tm.due <= now
        /\ Commit(scheduleNextBuffer([This EXCEPT !.timers = Fired(@, tm)], now), "wake", 0)
        /\ UNCHANGED << now, ncalls, eos, phase, completedAt, stoppedAt, decoded >>

\* the delayed callback of stop() fires
RebuildFire ==
    \E tm \in BagToSet(timers) :
        /\ tm.kind = "rebuild"
        /\ tm.due <= now
        /\ Commit(rebuildGain([This EXCEPT !.timers = Fired(@, tm)]), "rebuild", 0)
        /\ UNCHANGED << now, ncalls, eos, phase, completedAt, stoppedAt, decoded >>

\* a started source with an onended handler reaches its end
Ended ==
    \E i \in 1..Len(sources) :
        /\ sources[i].onended
        /\ ~sources[i].ended
        /\ sources[i].start + sources[i].dur <= now
        /\ Commit(onended([This EXCEPT !.sources[i].ended = TRUE], i), "ended", i)
        /\ UNCHANGED << now, ncalls, eos, phase, completedAt, stoppedAt, decoded >>

\* the audio clock advances; a timer that is due fires, possibly late (the
\* clock may have passed its due time by up to MaxLate), before the clock
\* moves further
Tick ==
    \E d \in ClockSteps :
        /\ now + d <= MaxTime
        /\ \A tm \in BagToSet(timers) : now + d <= tm.due + MaxLate
        /\ now' = now + d
        /\ last' = NoOp
        /\ UNCHANGED << audioQueue, processingBuffer, isPlaying, isStreamComplete,
                        scheduledTime, checkInterval, endOfQueueAudioSource, sources,
                        timers, gainNode, gainValue, ncalls, eos, phase,
                        completedAt, stoppedAt, decoded >>
        /\ UNCHANGED << cvars, tvars, wvars, fvars, rvars, lvars >>

Next ==
    \/ AddPCM16
    \/ Complete
    \/ Stop
    \/ Resume
    \/ PollTick
    \/ WakeFire
    \/ RebuildFire
    \/ Ended
    \/ Tick

Spec == Init /\ [][Next]_vars

\* ------------------------------------------------ actions of the client
ClientCommit(c, op, k, f, kind) ==
    /\ ws' = c.ws
    /\ config' = c.config
    /\ socks' = c.socks
    /\ parsing' = c.parsing
    /\ running' = c.running
    /\ events' = c.events
    /\ uncaught' = c.uncaught
    /\ settled' = c.settled
    /\ clast' = [ op |-> op, sock |-> k, frame |-> f, kind |-> kind,
                  content |-> ContentOf(f), threw |-> c.threw, ret |-> c.ret,
                  pre |-> ClientBefore(op) ]
    /\ UNCHANGED << svars, tvars, wvars, fvars, rvars, lvars >>

\* connect(config): the config is stored, the WebSocket is created
Connect ==
    /\ ninputs < MaxInputs
    /\ ClientCommit([Client EXCEPT !.config = "set", !.socks = Append(@, NewSocket)],
                    "connect", Len(socks) + 1, 0, "")
    /\ ninputs' = ninputs + 1
    /\ UNCHANGED nframes

\* the open event of WebSocket k
TransportOpen ==
    \E k \in 1..Len(socks) :
        /\ socks[k].state = "connecting"
        /\ ClientCommit(onOpen([Client EXCEPT !.socks[k].state = "open"], k),
                        "open", k, 0, "")
        /\ UNCHANGED << nframes, ninputs >>

\* WebSocket k fails before it is open: the window closes it and fires
\* error, then close (after the open event the error listener is removed and
\* a failure is the step TransportClose)
TransportError ==
    \E k \in 1..Len(socks) :
        /\ socks[k].state = "connecting"
        /\ LET closed == [Client EXCEPT !.socks[k].state = "closed"]
               errored == IF socks[k].onError THEN onError(closed, k) ELSE closed
           IN  ClientCommit(IF socks[k].onClose THEN onClose(errored, k) ELSE errored,
                            "error", k, 0, "")
        /\ UNCHANGED << nframes, ninputs >>

\* WebSocket k is closed, by the server or at the end of the close() handshake
TransportClose ==
    \E k \in 1..Len(socks) :
        /\ socks[k].state \in {"open", "closing"}
        /\ LET closed == [Client EXCEPT !.socks[k].state = "closed"]
           IN  ClientCommit(IF socks[k].onClose THEN onClose(closed, k) ELSE closed,
                            "close", k, 0, "")
        /\ UNCHANGED << nframes, ninputs >>

\* the application calls disconnect()
Disconnect ==
    /\ ninputs < MaxInputs
    /\ ClientCommit(disconnect(Client, 0), "disconnect", ws, 0, "")
    /\ ninputs' = ninputs + 1
    /\ UNCHANGED nframes

\* the message event of open WebSocket k with a Blob: receive() starts and
\* waits for blobToJSON
Message ==
    \E k \in 1..Len(socks), body \in InboundBodies :
        /\ ninputs < MaxInputs
        /\ socks[k].state = "open"
        /\ LET f == Frame(nframes + 1, k, body)
           IN  ClientCommit([Client EXCEPT !.parsing = @ \cup {f}], "message", k, f.fid, f.kind)
        /\ nframes' = nframes + 1
        /\ ninputs' = ninputs + 1

\* blobToJSON of frame f resolves: receive() runs on
Parsed ==
    \E f \in parsing :
        /\ ClientCommit(receive([Client EXCEPT !.parsing = @ \ {f}], f),
                        "receive", f.sock, f.fid, f.kind)
        /\ UNCHANGED << nframes, ninputs >>

\* execute() of pending invocation r settles, with a result or with an error
ToolDone ==
    \E r \in running, ok \in WeatherExecuteSettles :
        /\ ClientCommit(dispatched(Client, r,
                            [ ok |-> ok, payload |-> IF ok THEN "result" ELSE "execute failed",
                              of |-> r.call.id ]),
                        "toolDone", r.sock, r.frame, "toolCall")
        /\ UNCHANGED << nframes, ninputs >>

\* the application calls send, sendRealtimeInput or sendToolResponse
Outbound ==
    \E op \in OutboundOps :
        /\ ninputs < MaxInputs
        /\ ClientCommit(CASE op = "send" -> send(Client)
                          [] op = "sendRealtimeInput" -> sendRealtimeInput(Client)
                          [] OTHER -> sendToolResponse(Client, Envelope("toolResponse")),
                        op, ws, 0, "")
        /\ ninputs' = ninputs + 1
        /\ UNCHANGED nframes

ClientNext ==
    \/ Connect
    \/ TransportOpen
    \/ TransportError
    \/ TransportClose
    \/ Disconnect
    \/ Message
    \/ Parsed
    \/ ToolDone
    \/ Outbound

ClientSpec == Init /\ [][ClientNext]_vars

\* ------------------------------------------- one frame on an open connection
\* the client after connect() and the open event of its first WebSocket
Connected ==
    onOpen([ ws |-> 0, config |-> "set",
             socks |-> << [NewSocket EXCEPT !.state = "open"] >>,
             parsing |-> {}, running |-> {}, events |-> << >>, uncaught |-> 0,
             settled |-> {}, threw |-> "", ret |-> FALSE ], 1)

\* a connected client with unparsed frames and pending executions; of the
\* inputs so far the connect() call is counted, the frames are counted by
\* nframes
ConnectedInit(frames, execs) ==
    /\ StreamerInit
    /\ ToolInit
    /\ RecorderInit
    /\ NoListener
    /\ WorkletInit(<< 1, 1 >>)
    /\ NotApplied
    /\ ws = Connected.ws
    /\ config = Connected.config
    /\ socks = Connected.socks
    /\ parsing = frames
    /\ running = execs
    /\ events = Connected.events
    /\ uncaught = 0
    /\ nframes = Cardinality(frames) + Cardinality(execs)
    /\ ninputs = 1
    /\ settled = {}
    /\ clast = ClientNoOp

\* the first frame of the connection is a serverContent frame that has
\* arrived and is being parsed
FrameInit ==
    \E sc \in ServerContents :
        ConnectedInit({ Frame(1, 1, [ kind |-> "serverContent", names |-> << >>,
                                      content |-> sc ]) }, {})

FrameNext == Parsed

FrameSpec == FrameInit /\ [][FrameNext]_vars

\* --------------------------------------- the client with a listener of 'open'
ListenerInit ==
    /\ StreamerInit
    /\ ClientInit
    /\ ToolInit
    /\ RecorderInit
    /\ WorkletInit(<< 1, 1 >>)
    /\ NotApplied
    /\ openListener \in OpenListeners

ListenerSpec == ListenerInit /\ [][ClientNext]_vars

\* ------------------------------------ a tool execution in flight on a session
\* the first frame of the connection was a call of the weather capability;
\* it has been parsed and its execute() is pending
InFlightInit ==
    ConnectedInit({}, handleToolCall(Connected,
                          Frame(1, 1, [ kind |-> "toolCall",
                                        names |-> << "get_weather_on_date" >>,
                                        content |-> NoContent ])).running)

InFlightNext ==
    \/ Message
    \/ Parsed
    \/ ToolDone
    \/ Outbound

InFlightSpec == InFlightInit /\ [][InFlightNext]_vars

\* ------------------------------------------------------- a tool registry
\* registerTool(name, toolInstance) on the manager
RegisterTool ==
    \E name \in RegistryNames, toolInstance \in Capabilities :
        LET t == registerTool(Manager(tools), name, toolInstance)
        IN  /\ tools' = t.tools
            /\ tlast' = [ op |-> "registerTool", name |-> name, tool |-> toolInstance,
                          threw |-> t.threw, pre |-> tools ]
            /\ UNCHANGED << svars, cvars, wvars, fvars, rvars, lvars >>

ToolNext == RegisterTool

ToolSpec == Init /\ [][ToolNext]_vars

\* ----------------------------------------------------- the capture worklet
\* number of process() callbacks
MaxProcess == 3

\* the sample rates of the audio context the worklet is created in
OriginalSampleRates == {16000, 48000}

\* lengths of inputs[0][0]: a render quantum, the rest of a buffer after it,
\* one buffer, two buffers and a sample
BlockSizes == {128, 1920, 2048, 4097}

\* inputs of process(): no channel, or one channel of a length
ProcessInputs ==
    {[ channels |-> 0, len |-> 0 ]} \cup {[ channels |-> 1, len |-> n ] : n \in BlockSizes}

\* n samples that rise by one quantization step each, after `before' of them
Block(before, n) == [ j \in 1 .. n |-> (before + j) * QuantSteps ]

CaptureInit ==
    \E originalSampleRate \in OriginalSampleRates :
        /\ StreamerInit
        /\ ClientInit
        /\ ToolInit
        /\ RecorderInit
        /\ NoListener
        /\ WorkletInit(Ratio(originalSampleRate))
        /\ NotApplied

\* one process() callback of the audio thread
Process ==
    \E in \in ProcessInputs :
        \E channel0 \in { Block(Len(fed), in.len) } :
            \E w \in { process(Worklet, in.channels, channel0, resampleRatio) } :
                LET resampledData == IF in.channels # 0
                                     THEN linearResample(channel0, resampleRatio)
                                     ELSE << >>
                IN  /\ nprocess < MaxProcess
                    /\ buffer' = w.buffer
                    /\ bufferWriteIndex' = w.bufferWriteIndex
                    /\ posted' = w.posted
                    /\ fed' = fed \o [ n \in 1 .. Len(resampledData) |->
                                         quantize(resampledData[n], resampleRatio[1]) ]
                    /\ nprocess' = nprocess + 1
                    /\ UNCHANGED << resampleRatio, svars, cvars, tvars, fvars, rvars, lvars >>

CaptureNext == Process

CaptureSpec == CaptureInit /\ [][CaptureNext]_vars

\* ------------------------------------------------ linearResample on an input
\* length of the inputs of linearResample
MaxLen == 4

\* the samples -1, 0 and 1/2
Samples == {-(FullScale * QuantSteps), 0, (FullScale * QuantSteps) \div 2}

ResampleRates == {8000, 16000, 44100, 48000}

RECURSIVE SeqsUpTo(_, _)
SeqsUpTo(S, n) ==
    IF n = 0 THEN {<< >>}
    ELSE LET shorter == SeqsUpTo(S, n - 1)
         IN  shorter \cup {Append(q, x) : q \in shorter, x \in S}

ResampleInit ==
    \E inputData \in SeqsUpTo(Samples, MaxLen), originalSampleRate \in ResampleRates :
        /\ StreamerInit
        /\ ClientInit
        /\ ToolInit
        /\ RecorderInit
        /\ NoListener
        /\ WorkletInit(Ratio(originalSampleRate))
        /\ arg = [ fn |-> "linearResample", inputData |-> inputData ]
        /\ result = [ done |-> FALSE, out |-> << >> ]

Resample ==
    /\ arg.fn = "linearResample"
    /\ ~result.done
    /\ result' = [ done |-> TRUE, out |-> linearResample(arg.inputData, resampleRatio) ]
    /\ UNCHANGED << arg, svars, cvars, tvars, wvars, rvars, lvars >>

ResampleNext == Resample

ResampleSpec == ResampleInit /\ [][ResampleNext]_vars

\* ------------------------------------------------ quantization of one sample
\* the samples around these multiples of a quantization step: both ends of
\* the int16 range and beyond, the middle, zero
QuantAround == {-32769, -32768, -32767, -16384, -2, -1, 0, 1, 2, 16384, 32766, 32767, 32768, 32769}

QuantInputs == {c * QuantSteps + d : c \in QuantAround, d \in 0 .. QuantSteps - 1}

QuantInit ==
    \E x \in QuantInputs :
        /\ StreamerInit
        /\ ClientInit
        /\ ToolInit
        /\ RecorderInit
        /\ NoListener
        /\ WorkletInit(<< 1, 1 >>)
        /\ arg = [ fn |-> "quantize", x |-> x ]
        /\ result = [ done |-> FALSE, out |-> 0 ]

Quantize ==
    /\ arg.fn = "quantize"
    /\ ~result.done
    /\ result' = [ done |-> TRUE, out |-> quantize(arg.x, 1) ]
    /\ UNCHANGED << arg, svars, cvars, tvars, wvars, rvars, lvars >>

QuantNext == Quantize

QuantSpec == QuantInit /\ [][QuantNext]_vars

\* --------------------------------------------------------- the recorder
\* number of inputs of the recorder: calls of start() and stop() and
\* process() callbacks of its worklets
MaxRecorderInputs == 3

\* samples a process() callback adds at the target rate: half a buffer, a
\* buffer
CaptureSizes == {1024, BufferLength}

RecorderCommit(r, op) ==
    /\ isRecording' = r.isRecording
    /\ stream' = r.stream
    /\ onAudioData' = r.onAudioData
    /\ streams' = r.streams
    /\ starts' = r.starts
    /\ processors' = r.processors
    /\ inbox' = r.inbox
    /\ delivered' = r.delivered
    /\ rlast' = [ op |-> op, threw |-> r.threw, since |-> since, pre |-> Recorder ]
    /\ UNCHANGED << svars, cvars, tvars, wvars, fvars, lvars >>

RecorderStart ==
    /\ nrec < MaxRecorderInputs
    /\ RecorderCommit(recorderStart(Recorder), "start")
    /\ nrec' = nrec + 1
    /\ since' = "start"

RecorderStartResumed ==
    \E i \in 1 .. Len(starts), ok \in BOOLEAN :
        /\ starts[i] \notin {"done", "failed"}
        /\ RecorderCommit(recorderStartResumed(Recorder, i, ok), "resumed")
        /\ UNCHANGED << nrec, since >>

RecorderStop ==
    /\ nrec < MaxRecorderInputs
    /\ RecorderCommit(recorderStop(Recorder), "stop")
    /\ nrec' = nrec + 1
    /\ since' = "stop"

\* a process() callback in the worklet of a processor
WorkletProcess ==
    \E p \in 1 .. Len(processors), n \in CaptureSizes :
        /\ nrec < MaxRecorderInputs
        /\ RecorderCommit(workletProcess(Recorder, p, n), "process")
        /\ nrec' = nrec + 1
        /\ UNCHANGED since

\* the main thread handles a message of a worklet
Onmessage ==
    /\ inbox # << >>
    /\ RecorderCommit(onmessage(Recorder), "onmessage")
    /\ UNCHANGED << nrec, since >>

RecorderNext ==
    \/ RecorderStart
    \/ RecorderStartResumed
    \/ RecorderStop
    \/ WorkletProcess
    \/ Onmessage

RecorderSpec == Init /\ [][RecorderNext]_vars

\* ------------------------------------------------------------ type invariant
TypeOK ==
    /\ now \in 0..MaxTime
    /\ isPlaying \in BOOLEAN /\ isStreamComplete \in BOOLEAN /\ eos \in BOOLEAN
    /\ endOfQueueAudioSource \in 0..Len(sources)
    /\ \A i \in 1..Len(audioQueue) : audioQueue[i].len \in 1..bufferSize
    /\ processingBuffer.len \in 0..(bufferSize - 1)
    /\ ncalls \in 0..MaxCalls

\* ----------------------------------------------------------- derived notions
\* the wake-ups of the scheduler that are pending: the poll and the one-shot
\* timers armed by scheduleNextBuffer
PendingWakeUps == BagCardinality([tm \in {x \in BagToSet(timers) : x.kind \in {"poll", "wake"}}
                                    |-> timers[tm]])

PendingOneShots == BagCardinality([tm \in {x \in BagToSet(timers) : x.kind = "wake"}
                                     |-> timers[tm]])

TerminalUnits == {i \in 1..Len(sources) : sources[i].terminal}

\* the most recently scheduled terminal unit (0 when there is none)
LatestTerminal == IF TerminalUnits = {} THEN 0
                  ELSE CHOOSE i \in TerminalUnits : \A j \in TerminalUnits : j <= i

\* every started unit has played to its end
AllPlayed == \A i \in 1..Len(sources) : sources[i].start + sources[i].dur <= now

\* ------------------------------------------------------------------- claims

\* C1 (as claimed): at most one wake-up of the scheduler, the periodic poll or
\* a one-shot timer, is pending at any time.
C1_AtMostOneWakeUp == PendingWakeUps <= 1

\* C2 (as claimed): the cursor scheduledTime never decreases, whatever the
\* step: its value after a step is at least its value before the step.
C2_CursorNeverDecreases == last.op # "none" => scheduledTime >= last.sched

\* C2 (amended): scheduledTime never decreases in a scheduling pass, a poll
\* tick, a one-shot timer firing, complete(), the end of a unit, or a submit
\* made while Streaming; only stop(), resume() and a submit made while Idle
\* reset it.
C2_CursorNeverDecreasesInPasses ==
    (\/ last.op \in {"complete", "poll", "wake", "ended", "rebuild"}
     \/ (last.op = "addPCM16" /\ last.playing))
        => scheduledTime >= last.sched

\* a timer-driven pass has scheduled a unit and advanced the cursor
C2_Witness ==
    /\ last.op = "wake"
    /\ Len(sources) > last.nsources
    /\ scheduledTime > last.sched

\* C3: no unit is started before the clock: the start time of every unit is
\* the larger of the cursor and the clock at the moment the unit was
\* scheduled, hence at least that clock value.
C3_StartNotBeforeClock ==
    \A i \in 1..Len(sources) :
        /\ sources[i].start >= sources[i].at
        /\ sources[i].start >= sources[i].cursor
        /\ sources[i].start \in {sources[i].at, sources[i].cursor}

\* a pass ran late: the cursor was already in the past and the unit starts now
C3_Witness ==
    \E i \in 1..Len(sources) :
        /\ sources[i].cursor < sources[i].at
        /\ sources[i].start = sources[i].at

\* C4 (as claimed): consecutively scheduled units never overlap,
\* start[i+1] >= start[i] + duration[i].
C4_NoOverlap ==
    \A i \in 1..(Len(sources) - 1) :
        sources[i + 1].start >= sources[i].start + sources[i].dur

\* C5: complete() called with the queue and the processing buffer both empty
\* calls onComplete exactly once inside the call.
C5_CompleteOnEmptyFiresOnce ==
    (last.op = "complete" /\ last.qlen = 0 /\ last.pblen = 0) => last.calls = 1

C5_Witness ==
    /\ last.op = "complete" /\ last.qlen = 0 /\ last.pblen = 0
    /\ last.playing
    /\ last.calls = 1

\* C6 (as claimed): complete() calls onComplete inside the call only if the
\* queue was already empty; with buffers waiting in the queue it does not.
C6_NoImmediateCompletionWithQueue ==
    (last.op = "complete" /\ last.qlen > 0) => last.calls = 0

\* C7: the end of a terminal unit calls onComplete at most once, and only if
\* the queue is empty at that moment and the unit is the most recently
\* scheduled terminal unit; a superseded terminal unit that has not ended yet
\* keeps no handler, so it never fires.
C7_TerminalUnitFiresOnceIfCurrent ==
    /\ last.op = "ended" =>
          /\ last.calls <= 1
          /\ last.calls = 1 => (last.qlen = 0 /\ last.unit = LatestTerminal)
    /\ \A i \in TerminalUnits :
          (i # LatestTerminal /\ ~sources[i].ended) => ~sources[i].onended

\* the latest of two terminal units has ended and fired completion
C7_Witness ==
    /\ last.op = "ended"
    /\ last.calls = 1
    /\ Cardinality(TerminalUnits) >= 2

\* C8 (as claimed, in the form a finite run refutes): once complete() has been
\* called on a Streaming scheduler and nothing was submitted since, when the
\* queue is exhausted, every unit has played and no one-shot timer is pending,
\* the scheduler is Idle.
C8_IdleAfterDrain ==
    (/\ eos
     /\ Len(audioQueue) = 0
     /\ processingBuffer.len = 0
     /\ PendingOneShots = 0
     /\ AllPlayed) => ~isPlaying

\* C9: addPCM16 called while not Streaming sets isPlaying, sets the cursor to
\* the clock plus the pre-roll and runs one pass (so the first unit of that
\* pass starts at clock + pre-roll, and the scheduler is Streaming afterwards
\* unless that pass found the stream complete and drained); called while
\* Streaming it neither moves the cursor nor runs a pass.
C9_SubmitStartsStreaming ==
    last.op = "addPCM16" =>
        IF ~last.playing
        THEN /\ last.pass
             /\ \/ isPlaying
                \/ (isStreamComplete /\ Len(audioQueue) = 0 /\ processingBuffer.len = 0)
             /\ IF Len(sources) > last.nsources
                THEN /\ sources[last.nsources + 1].cursor = now + initialBufferTime
                     /\ sources[last.nsources + 1].start = now + initialBufferTime
                ELSE scheduledTime = now + initialBufferTime
        ELSE /\ ~last.pass
             /\ isPlaying
             /\ scheduledTime = last.sched
             /\ Len(sources) = last.nsources

\* a submit made while Idle, at a moment the cursor was elsewhere, started a unit
C9_Witness ==
    /\ last.op = "addPCM16"
    /\ ~last.playing
    /\ last.sched # now + initialBufferTime
    /\ Len(sources) > last.nsources
    /\ isPlaying

\* C10: after stop() the scheduler is Idle and both the queue and the
\* processing buffer are empty, whatever was queued.
C10_StopForcesIdle ==
    last.op = "stop" =>
        /\ ~isPlaying
        /\ Len(audioQueue) = 0
        /\ processingBuffer.len = 0

\* stop() was called while Streaming with a buffer queued and a partial buffer
C10_Witness ==
    /\ last.op = "stop"
    /\ last.playing
    /\ last.qlen > 0
    /\ last.pblen > 0

\* C11 (as claimed): after stop() returns, no wake-up of the scheduler armed
\* before the stop, periodic poll or one-shot timer, is still pending.
C11_StopCancelsWakeUps == last.op = "stop" => PendingWakeUps = 0

\* C12 (as claimed): after stop() then resume(), the cursor is the clock plus
\* the pre-roll, and a unit scheduled afterwards is on an output node that
\* stays connected until the unit ends: when the delayed callback of stop()
\* disconnects a node, every such unit on that node has played to its end.
C12_ResumeUsableAfterStop ==
    /\ (last.op = "resume" /\ phase = "resumed") => scheduledTime = now + initialBufferTime
    /\ last.op = "rebuild" =>
          \A i \in 1..Len(sources) :
              (sources[i].phase = "resumed" /\ sources[i].node < gainNode)
                  => sources[i].start + sources[i].dur <= now

\* C13 (as claimed): units start in the order in which their samples were
\* submitted: a unit holding later samples never starts before a unit holding
\* earlier samples.
C13_StartOrderIsSubmitOrder ==
    \A i, j \in 1..Len(sources) :
        sources[i].first < sources[j].first => sources[i].start <= sources[j].start

\* ------------------------------------------------ protocol client: notions
\* the envelopes handed to send() of any WebSocket, as positions << k, i >>
Sent == { p \in (1..Len(socks)) \X (1..MaxInputs + 1) : p[2] <= Len(socks[p[1]].out) }
EnvelopeAt(p) == socks[p[1]].out[p[2]]
\* the toolResponses sent by handleToolCall on behalf of inbound frame f
ResponsesOf(f) ==
    { p \in Sent : EnvelopeAt(p).type = "toolResponse" /\ EnvelopeAt(p).frame = f }
\* the invocations of the dispatcher made for inbound frame f
InvocationsOf(f) ==
    { r.call.id : r \in { q \in running : q.frame = f } }
        \cup { x.call.id : x \in { y \in settled : y.frame = f } }

ClientTypeOK ==
    /\ ws \in 0..Len(socks)
    /\ ws # 0 => socks[ws].state = "open" /\ socks[ws].onClose
    /\ ninputs \in 0..MaxInputs
    /\ nframes <= ninputs
    /\ \A f \in parsing : f.fid \in 1..nframes
    /\ \A r \in running : r.frame \in 1..nframes

\* --------------------------------------------------- protocol client claims
\* C14: connect() resolves as soon as the transport is open and setup has been
\* sent: after the open event the promise of that WebSocket is resolved and
\* setup is the one envelope sent on it, a resolved promise always has setup
\* as its first envelope, and neither depends on a setupcomplete event.
C14_ConnectResolvesOnOpen ==
    /\ clast.op = "open" =>
          /\ socks[clast.sock].promise = "resolved"
          /\ Len(socks[clast.sock].out) = 1
          /\ socks[clast.sock].out[1].type = "setup"
    /\ \A k \in 1..Len(socks) :
          socks[k].promise = "resolved" =>
              /\ socks[k].state # "connecting"
              /\ Len(socks[k].out) >= 1 /\ socks[k].out[1].type = "setup"

\* connect() has resolved although no setupComplete frame has been handled
C14_Witness ==
    /\ clast.op = "open"
    /\ socks[clast.sock].promise = "resolved"
    /\ \A i \in 1..Len(events) : events[i].ev # "setupcomplete"

\* C15 (as claimed): when the transport reports an error before it is open,
\* the promise returned by connect() is rejected and the client owns no
\* transport.
C15_ErrorBeforeReadyRejects ==
    clast.op = "error" => socks[clast.sock].promise = "rejected" /\ ws = 0

\* C16: an outbound operation (send, sendRealtimeInput, sendToolResponse)
\* called while the client owns no transport throws the not-connected error,
\* hands nothing to any WebSocket and leaves the client's state as it was.
C16_NotConnectedFails ==
    (clast.op \in OutboundOps /\ clast.pre.ws = 0) =>
        /\ clast.threw = "WebSocket is not connected"
        /\ ws = 0
        /\ config = clast.pre.config
        /\ socks = clast.pre.socks
        /\ parsing = clast.pre.parsing
        /\ running = clast.pre.running
        /\ events = clast.pre.events
        /\ uncaught = clast.pre.uncaught

\* an outbound operation is called after the owned transport was given up
C16_Witness ==
    /\ clast.op \in OutboundOps
    /\ clast.pre.ws = 0
    /\ clast.threw = "WebSocket is not connected"
    /\ \E k \in 1..Len(socks) : socks[k].onClose /\ socks[k].state \in {"closing", "closed"}

\* C17: for every toolCall frame the dispatcher is invoked at most once, for
\* the first call of the batch; no response carries the id of another call;
\* at most one toolResponse is sent for the frame, and exactly one when the
\* client owned a transport at the moment the invocation finished.
C17_FirstCallOnly ==
    /\ \A f \in 1..nframes :
          /\ InvocationsOf(f) \subseteq { << f, 1 >> }
          /\ Cardinality({ r \in running : r.frame = f })
                + Cardinality({ x \in settled : x.frame = f }) <= 1
          /\ Cardinality(ResponsesOf(f)) <= 1
          /\ \A p \in ResponsesOf(f) : EnvelopeAt(p).id = << f, 1 >>
    /\ \A x \in settled : x.ws # 0 => Cardinality(ResponsesOf(x.frame)) = 1

\* a batch of two calls has been handled on an open connection
C17_Witness ==
    \E x \in settled :
        /\ x.batch = 2 /\ x.ws = x.sock
        /\ Cardinality(ResponsesOf(x.frame)) = 1

\* C18: every toolResponse sent on behalf of a toolCall frame carries the id
\* of that frame's call and the output or error of that call's own execution.
C18_ResponseCarriesItsCallsId ==
    \A p \in Sent :
        LET e == EnvelopeAt(p)
        IN  (e.type = "toolResponse" /\ e.frame # 0) =>
                /\ e.id = << e.frame, 1 >>
                /\ e.of = e.id
                /\ \E x \in settled :
                      /\ x.frame = e.frame /\ x.call.id = e.id
                      /\ (x.outcome = "ok") = (e.tag = "output")

\* two executions were in flight together and the later call was answered first
C18_Witness ==
    \E p, q \in Sent :
        /\ p[1] = q[1] /\ p[2] < q[2]
        /\ EnvelopeAt(p).type = "toolResponse" /\ EnvelopeAt(q).type = "toolResponse"
        /\ EnvelopeAt(p).payload \in {"result", "execute failed"}
        /\ EnvelopeAt(q).payload \in {"result", "execute failed"}
        /\ EnvelopeAt(p).frame > EnvelopeAt(q).frame /\ EnvelopeAt(q).frame > 0

\* C19 (as claimed): every failed invocation (execute failed, or the name is
\* not bound) has exactly one error-tagged toolResponse with the call's id,
\* and handling it leaves the owned transport owned and open.
C19_FailureAnsweredOnce ==
    /\ \A x \in settled :
          x.outcome \in {"failed", "unknown"} =>
              Cardinality({ p \in ResponsesOf(x.frame) :
                              EnvelopeAt(p).tag = "error" /\ EnvelopeAt(p).id = x.call.id }) = 1
    /\ clast.op \in {"receive", "toolDone"} =>
          ws = clast.pre.ws /\ (ws # 0 => socks[ws].state = "open")

\* C20: handling a toolCallCancellation frame emits the cancellation event
\* and does nothing else: no envelope is sent, no pending execution is
\* dropped, the connection is untouched.
C20_CancellationOnlyEmits ==
    (clast.op = "receive" /\ clast.kind = "toolCallCancellation") =>
        /\ events = Append(clast.pre.events,
                           [ev |-> "toolcallcancellation", frame |-> clast.frame,
                            parts |-> << >>])
        /\ socks = clast.pre.socks
        /\ running = clast.pre.running
        /\ ws = clast.pre.ws
        /\ uncaught = clast.pre.uncaught

\* an execution that was in flight when a cancellation was handled has
\* finished and its toolResponse has been sent
C20_Witness ==
    /\ clast.op = "toolDone"
    /\ \E x \in settled :
          /\ x.frame = clast.frame
          /\ \E i \in (x.started + 1)..Len(clast.pre.events) :
                clast.pre.events[i].ev = "toolcallcancellation"
          /\ Cardinality(ResponsesOf(x.frame)) = 1

\* ------------------------------------------------------- inbound frames
\* the events emitted by the last step
NewEvents == SubSeq(events, Len(clast.pre.events) + 1, Len(events))
\* the events of that name among evs, in order
Named(evs, name) == SelectSeq(evs, LAMBDA e : e.ev = name)
\* the positions of the parts of those kinds, in order
Positions(parts, kinds) ==
    SelectSeq([ i \in 1..Len(parts) |-> i ], LAMBDA i : parts[i] \in kinds)
\* the last step handled a serverContent frame
HandledContent == clast.op = "receive" /\ clast.kind = "serverContent"

\* C21: a serverContent frame with interrupted set makes receive emit the
\* interruption event for that frame and nothing else, whatever else the
\* frame holds.
C21_InterruptedEndsFrame ==
    (HandledContent /\ clast.content.interrupted) =>
        /\ Len(events) >= Len(clast.pre.events)
        /\ SubSeq(events, 1, Len(clast.pre.events)) = clast.pre.events
        /\ NewEvents = << [ev |-> "interrupted", frame |-> clast.frame, parts |-> << >>] >>

\* an interrupted frame that also ends the turn and holds audio and text
C21_Witness ==
    /\ HandledContent
    /\ clast.content.interrupted /\ clast.content.turnComplete
    /\ "audio" \in { clast.content.parts[i] : i \in 1..Len(clast.content.parts) }
    /\ "text" \in { clast.content.parts[i] : i \in 1..Len(clast.content.parts) }
    /\ Len(NewEvents) = 1

\* C22: a serverContent frame with turnComplete set and not interrupted makes
\* receive emit one turn-complete event, first, and go on: without a
\* modelTurn nothing else is emitted, with one its audio parts and its other
\* parts still produce their audio and content events.
C22_TurnCompleteGoesOn ==
    (HandledContent /\ clast.content.turnComplete /\ ~clast.content.interrupted) =>
        /\ Len(NewEvents) >= 1
        /\ NewEvents[1] = [ev |-> "turncomplete", frame |-> clast.frame, parts |-> << >>]
        /\ Len(Named(NewEvents, "turncomplete")) = 1
        /\ ~clast.content.modelTurn => Len(NewEvents) = 1
        /\ Len(Named(NewEvents, "audio")) = Len(Positions(clast.content.parts, {"audio"}))
        /\ Len(Named(NewEvents, "content"))
              = IF Positions(clast.content.parts, {"text", "image"}) = << >> THEN 0 ELSE 1

\* the end of a turn in a frame whose modelTurn produced audio and content
C22_Witness ==
    /\ HandledContent
    /\ clast.content.turnComplete /\ ~clast.content.interrupted
    /\ Len(Named(NewEvents, "audio")) >= 1
    /\ Len(Named(NewEvents, "content")) = 1

\* C23 (as claimed): for a modelTurn receive emits one audio event per audio
\* part, in part order, and one content event with all and only the other
\* parts in their order, none when there is no other part.
C23_OneAudioEventPerAudioPart ==
    (HandledContent /\ clast.content.modelTurn /\ ~clast.content.interrupted) =>
        LET audios == Positions(clast.content.parts, {"audio", "audioEmpty"})
            others == Positions(clast.content.parts, {"text", "image"})
        IN  /\ Named(NewEvents, "audio")
                  = [ j \in 1..Len(audios) |->
                        [ev |-> "audio", frame |-> clast.frame, parts |-> << audios[j] >>] ]
            /\ Named(NewEvents, "content")
                  = IF others = << >> THEN << >>
                    ELSE << [ev |-> "content", frame |-> clast.frame, parts |-> others] >>

\* C23 (amended): one audio event per audio part that carries data, in part
\* order; an audio part without data produces no event; one content event
\* with all and only the parts that are not audio parts, in their order, none
\* when there is no such part.
C23_OneAudioEventPerAudioPartWithData ==
    (HandledContent /\ clast.content.modelTurn /\ ~clast.content.interrupted) =>
        LET audios == Positions(clast.content.parts, {"audio"})
            others == Positions(clast.content.parts, {"text", "image"})
        IN  /\ Named(NewEvents, "audio")
                  = [ j \in 1..Len(audios) |->
                        [ev |-> "audio", frame |-> clast.frame, parts |-> << audios[j] >>] ]
            /\ Named(NewEvents, "content")
                  = IF others = << >> THEN << >>
                    ELSE << [ev |-> "content", frame |-> clast.frame, parts |-> others] >>

\* a modelTurn with an audio part between two other parts
C23_Witness ==
    /\ HandledContent
    /\ clast.content.modelTurn /\ ~clast.content.interrupted
    /\ clast.content.parts = << "text", "audio", "image" >>
    /\ Len(Named(NewEvents, "audio")) = 1
    /\ Len(Named(NewEvents, "content")) = 1

\* C24: disconnect gives up a transport only if it is the owned one: the
\* error or close notification of a WebSocket that is not the owned one leaves
\* the owned WebSocket owned and open; disconnect() without an owned
\* transport returns false and changes nothing; and a WebSocket is closed by
\* the client only while it is the owned one.
C24_DisconnectOnlyOwned ==
    /\ (clast.op \in {"error", "close"} /\ clast.pre.ws \notin {0, clast.sock}) =>
          /\ ws = clast.pre.ws
          /\ socks[ws] = clast.pre.socks[ws]
          /\ socks[ws].state = "open"
    /\ (clast.op = "disconnect" /\ clast.pre.ws = 0) =>
          /\ ~clast.ret
          /\ ws = 0
          /\ socks = clast.pre.socks
          /\ events = clast.pre.events
    /\ clast.op \in {"error", "close", "disconnect"} =>
          \A k \in 1..Len(socks) :
              (socks[k].state = "closing" /\ clast.pre.socks[k].state = "open")
                  => clast.pre.ws = k

\* the close notification of a replaced WebSocket arrives while a later one
\* is owned
C24_Witness ==
    /\ clast.op = "close"
    /\ clast.pre.ws \notin {0, clast.sock}
    /\ clast.pre.socks[clast.sock].onClose
    /\ ws = clast.pre.ws

\* C25 (as claimed): the events emitted on behalf of inbound frames follow
\* the arrival order of the frames: no event of a frame is emitted after an
\* event of a frame that arrived later.
C25_EventsInArrivalOrder ==
    \A i, j \in 1..Len(events) :
        (i < j /\ events[i].frame > 0 /\ events[j].frame > 0)
            => events[i].frame <= events[j].frame

\* the envelope an outbound operation of the application hands to the socket
EnvelopeOf(op) ==
    Envelope(CASE op = "send" -> "clientContent"
               [] op = "sendRealtimeInput" -> "realtimeInput"
               [] OTHER -> "toolResponse")

\* C26: a pending tool execution holds up nothing but its own frame: an
\* outbound operation called meanwhile appends its envelope to the owned
\* socket at once (so envelopes are in call order), and a frame parsed
\* meanwhile is handled at once: its events are emitted, a call of a
\* capability that resolves at once is answered, and the pending execution
\* stays pending.
C26_InFlightExecutionBlocksNothing ==
    /\ (clast.op \in OutboundOps /\ clast.pre.running # {} /\ clast.pre.ws # 0) =>
          /\ clast.threw = ""
          /\ ws = clast.pre.ws
          /\ socks[ws].out = Append(clast.pre.socks[ws].out, EnvelopeOf(clast.op))
          /\ running = clast.pre.running
    /\ (clast.op = "receive" /\ clast.pre.running # {}) =>
          /\ clast.pre.running \subseteq running
          /\ clast.kind \in {"setupComplete", "toolCallCancellation", "serverContent"}
                => Len(events) > Len(clast.pre.events)
          /\ (clast.kind = "toolCall" /\ running = clast.pre.running /\ ws # 0)
                => Cardinality(ResponsesOf(clast.frame)) = 1

\* an outbound call and a later frame have been served while the first call
\* of the session was still executing
C26_Witness ==
    /\ clast.op = "receive"
    /\ clast.pre.running # {} /\ running = clast.pre.running
    /\ Len(events) > Len(clast.pre.events)
    /\ Len(socks[ws].out) = 2
    /\ socks[ws].out[2].type = "clientContent"

\* ------------------------------------------------------------ tool registry
\* C27: registerTool under a name that is already bound throws and leaves
\* the registry as it was, so a name is never rebound to a second
\* capability; under a free name it binds the name to the capability given.
C27_BoundNameIsNotRebound ==
    tlast.op = "registerTool" =>
        IF tlast.pre[tlast.name] # 0
        THEN tlast.threw /\ tools = tlast.pre
        ELSE ~tlast.threw /\ tools = [tlast.pre EXCEPT ![tlast.name] = tlast.tool]

\* a name bound by an earlier registerTool was registered again with another
\* capability
C27_Witness ==
    /\ tlast.op = "registerTool"
    /\ tlast.name = "calculator"
    /\ tlast.pre["calculator"] # 0
    /\ tlast.tool # tlast.pre["calculator"]
    /\ tlast.threw

\* ---------------------------------------------------------- capture worklet
\* C28: after callbacks that delivered T samples at the target rate, however
\* split, floor(T / 2048) chunks have been posted, the k-th one holds the
\* samples (k-1)*2048+1 .. k*2048 in order, and the last T mod 2048 samples
\* wait in the buffer.
C28_FramesCarryRemainder ==
    LET T == Len(fed)
    IN  /\ Len(posted) = T \div BufferLength
        /\ \A k \in 1 .. Len(posted) :
              /\ posted[k].event = "chunk"
              /\ posted[k].data = SubSeq(fed, (k - 1) * BufferLength + 1, k * BufferLength)
        /\ bufferWriteIndex = T % BufferLength
        /\ SubSeq(buffer, 1, bufferWriteIndex) = SubSeq(fed, T - bufferWriteIndex + 1, T)

\* the second callback found one sample left in the buffer and brought two
\* buffers and a sample: it posted two chunks and left two samples
C28_Witness ==
    /\ nprocess = 2
    /\ Len(posted) = 4
    /\ bufferWriteIndex = 2

\* C29: linearResample returns floor(N * ratio) samples for an input of N,
\* the input itself when the ratio is 1, and the last input sample wherever
\* floor(i / ratio) >= N - 1: nothing is read past the input's end.
C29_ResampleLengthAndTail ==
    result.done =>
        LET inputData == arg.inputData
            N == Len(inputData)
            num == resampleRatio[1]
            den == resampleRatio[2]
        IN  /\ Len(result.out) = (N * num) \div den
            /\ N = 0 => result.out = << >>
            /\ num = den => result.out = inputData
            /\ \A n \in 1 .. Len(result.out) :
                  /\ result.out[n] # NaN
                  /\ ((n - 1) * den) \div num >= N - 1 => result.out[n] = inputData[N] * num

\* three samples were resampled to twice the rate: the last two outputs are
\* positions 2 and 2.5 of the input
C29_Witness ==
    /\ result.done
    /\ arg.fn = "linearResample"
    /\ Len(arg.inputData) = 3
    /\ arg.inputData[2] # arg.inputData[3]
    /\ resampleRatio = << 2, 1 >>
    /\ Len(result.out) = 6

\* float * 32768 rounded to the nearest integer, halves upwards
RoundToNearest(x) == (2 * x + QuantSteps) \div (2 * QuantSteps)

\* C30: the int16 of a sample is clamp(round(float * 32768), -32768, 32767):
\* the nearest integer, always in the int16 range, and for a sample in
\* [-1, 1] at most 1/32768 away from it.
C30_QuantizeRoundsToNearest ==
    result.done =>
        /\ result.out = Max(Int16Min, Min(Int16Max, RoundToNearest(arg.x)))
        /\ result.out \in Int16Min .. Int16Max
        /\ arg.x \in -(FullScale * QuantSteps) .. FullScale * QuantSteps =>
              /\ result.out * QuantSteps - arg.x <= QuantSteps
              /\ arg.x - result.out * QuantSteps <= QuantSteps

\* ------------------------------------------------------------------ recorder
\* C31 (as claimed): stop() of the recorder is idempotent and flushes
\* nothing: a stop() that follows a stop() does not throw and changes no
\* state; no stop() posts or delivers a frame, and every frame delivered has
\* BufferLength samples; and once stop() has returned, onAudioData is not
\* called until start() is called again.
C31_StopIdempotentNoFlush ==
    /\ (rlast.op = "stop" /\ rlast.since = "stop") =>
          /\ ~rlast.threw
          /\ Recorder = rlast.pre
    /\ rlast.op = "stop" =>
          /\ delivered = rlast.pre.delivered
          /\ inbox = rlast.pre.inbox
    /\ \A k \in 1 .. Len(delivered) : delivered[k] = BufferLength
    /\ (rlast.op = "onmessage" /\ Len(delivered) > Len(rlast.pre.delivered)) =>
          since # "stop"

\* ----------------------------------------------------- scheduler, continued
\* C32: a unit is scheduled only while the cursor is less than the
\* look-ahead beyond the clock: every unit was scheduled with
\* cursor < clock + SCHEDULE_AHEAD_TIME, and a pass ends with the queue empty
\* or with the cursor at least the look-ahead beyond the clock.
C32_ScheduleWithinLookAhead ==
    /\ \A i \in 1..Len(sources) :
          sources[i].cursor < sources[i].at + SCHEDULE_AHEAD_TIME
    /\ last.pass =>
          \/ Len(audioQueue) = 0
          \/ scheduledTime >= now + SCHEDULE_AHEAD_TIME

\* a pass found two buffers queued, scheduled the first and stopped at the
\* look-ahead with the second still queued
C32_Witness ==
    /\ last.pass
    /\ Len(sources) > last.nsources
    /\ Len(audioQueue) > 0
    /\ scheduledTime >= now + SCHEDULE_AHEAD_TIME

\* the one-shot timers pending in a timer table
OneShots(ts) == BagCardinality([tm \in {x \in BagToSet(ts) : x.kind = "wake"} |-> ts[tm]])

\* the one-shot timers a step has armed: a timer-driven pass has consumed
\* the one that fired
ArmedOneShots ==
    PendingOneShots - (OneShots(last.timers) - (IF last.op = "wake" THEN 1 ELSE 0))

\* C33 (as claimed): after a pass that left the queue empty with completion
\* not signalled the periodic poll is armed; the poll re-runs the pass only
\* when a buffer is queued or the processing buffer holds a full buffer;
\* after a pass that left the queue non-empty a one-shot timer has been
\* armed; and no pass arms a one-shot timer while the queue is empty.
C33_RearmByQueue ==
    /\ (last.pass /\ Len(audioQueue) = 0 /\ ~isStreamComplete) => checkInterval # 0
    /\ (last.op = "poll" /\ last.pass) => (last.qlen > 0 \/ last.pblen >= bufferSize)
    /\ (last.pass /\ Len(audioQueue) > 0) => ArmedOneShots = 1
    /\ (last.pass /\ Len(audioQueue) = 0) => ArmedOneShots = 0

\* ------------------------------------------------ protocol client, continued
\* C34: on every WebSocket the setup envelope is the first envelope handed
\* to send(): no clientContent, realtimeInput or toolResponse envelope
\* precedes it, whatever the application and its listener of 'open' call.
C34_SetupIsFirst ==
    \A k \in 1..Len(socks) :
        socks[k].out # << >> => socks[k].out[1].type = "setup"

\* a second connect() opened while the first WebSocket was owned: the send()
\* of the listener of 'open' went to the first WebSocket, after its setup,
\* and the second WebSocket got its setup first
C34_Witness ==
    /\ openListener = "trySend"
    /\ Len(socks) = 2
    /\ Len(socks[1].out) = 2
    /\ socks[1].out[1].type = "setup"
    /\ socks[1].out[2].type = "clientContent"
    /\ socks[2].out = << Envelope("setup") >>

\* ------------------------------------------------------ completion callback
\* C35 (as claimed): once complete() has called onComplete itself, the end
\* of a unit that was scheduled before that call does not call onComplete
\* again.
C35_CompletionOncePerComplete ==
    (last.op = "ended" /\ last.unit <= completedAt) => last.calls = 0

\* C36 (as claimed): the end of a unit that was scheduled before the latest
\* stop() does not call onComplete.
C36_NoCompletionAfterStop ==
    (last.op = "ended" /\ last.unit <= stoppedAt) => last.calls = 0

\* ------------------------------------------- tool responses and transports
\* C37 (as claimed): a toolResponse produced by handling a toolCall is sent
\* only on the WebSocket on which the frame of that toolCall arrived.
C37_ResponseOnOriginTransport ==
    \A k \in 1..Len(socks) : \A i \in 1..Len(socks[k].out) :
        (socks[k].out[i].type = "toolResponse" /\ socks[k].out[i].frame # 0)
            => \A s \in settled : s.frame = socks[k].out[i].frame => s.sock = k

\* C38 (as claimed): a frame of a WebSocket the client does not own when
\* receive() handles it produces nothing: no event is emitted for it and no
\* tool is executed for it.
C38_StaleFrameProducesNothing ==
    (clast.op = "receive" /\ clast.sock # clast.pre.ws)
        => /\ events = clast.pre.events
           /\ \A r \in running : r.frame # clast.frame
           /\ \A s \in settled : s.frame # clast.frame

\* ----------------------------------------------------- idle holds no data
\* C39: whenever isPlaying is false, the playback queue and the processing
\* buffer are both empty.
C39_IdleHoldsNoData ==
    ~isPlaying => (Len(audioQueue) = 0 /\ processingBuffer.len = 0)

\* a pass has just taken the last samples out of the processing buffer and
\* the queue and has left the streamer idle
C39_Witness ==
    /\ ~isPlaying
    /\ last.pass
    /\ last.pblen > 0
    /\ Len(sources) > 0
    /\ Len(audioQueue) = 0
    /\ processingBuffer.len = 0

\* ------------------------------------------------------ samples are conserved
\* the runs of samples the streamer holds or has handed to the audio graph:
\* the scheduled units in scheduling order, the queue entries, the
\* processing buffer
Segments ==
    [ i \in 1..Len(sources) |-> [ first |-> sources[i].first, len |-> sources[i].len ] ]
        \o audioQueue \o << processingBuffer >>

\* C40: as long as stop() has not been called, the scheduled units, the queue
\* entries and the processing buffer, in this order, are the decoded samples
\* in the order of submission, each exactly once; every queue entry cut by
\* addPCM16 has bufferSize samples and addPCM16 leaves fewer than bufferSize
\* samples in the processing buffer.
C40_SamplesConserved ==
    /\ phase = "none" =>
          /\ Segments[1].first = 1
          /\ \A i \in 1..(Len(Segments) - 1) :
                 Segments[i + 1].first = Segments[i].first + Segments[i].len
          /\ processingBuffer.first + processingBuffer.len - 1 = decoded
    /\ last.op = "addPCM16" =>
          /\ processingBuffer.len < bufferSize
          /\ \A i \in 1..(Len(Segments) - 1) :
                 Segments[i].first >= last.pbfirst => Segments[i].len = bufferSize

\* three chunks without a stop(): the first buffer is scheduled, the second
\* waits in the queue, the rest of the third is in the processing buffer
C40_Witness ==
    /\ phase = "none"
    /\ last.op = "addPCM16"
    /\ Len(sources) >= 1
    /\ Len(audioQueue) >= 1
    /\ processingBuffer.len > 0
    /\ decoded > 2 * bufferSize
====
